---- MODULE Spec2Model ----
(***************************************************************************)
(* Model of cleanup_trec.py: the reference extraction over a .tscproj      *)
(* document, the computation of the set of unused files, the trash loop    *)
(* and the recursive driver.                                               *)
(*                                                                         *)
(* Strings are sequences of one-character strings, so that lower(),        *)
(* endswith(), strip(), split() and sorted() are computed, not assumed.    *)
(* The file system is case-sensitive (os.path.isfile and os.listdir agree  *)
(* on the exact spelling of a name).                                       *)
(***************************************************************************)
EXTENDS Integers, Sequences, FiniteSets, TLC

VARIABLES
    fs,                    \* [Dirs -> set of file names]: the plain files of each directory
    content,               \* [ProjectPaths -> Doc]: what each project file holds
    args,                  \* the parsed command line (path, sendtotrash, all_unused, list_used, recursive)
    pc,                    \* position in main / process_recursively / process_directory_or_file
    walk_dirs,             \* os.walk: directories still to visit
    tscproj_files,         \* process_recursively: project files of the current root still to process
    root,                  \* process_recursively: the directory os.walk is at
    processed_count,       \* process_recursively: processed_count
    scan,                  \* locals of the running process_directory_or_file call
    todo,                  \* the part of sorted(files_to_delete) the loop has not reached
    attempts,              \* send2trash calls of the running call, in order
    trashed,               \* every <<directory, file>> send2trash was ever called on
    fs0                    \* the file system before the run

vars == <<fs, content, args, pc, walk_dirs, tscproj_files, root, processed_count,
          scan, todo, attempts, trashed, fs0>>

--------------------------------------------------------------------------
(* Bounds *)

MaxSources == 2

--------------------------------------------------------------------------
(* str methods *)

UpperChars == <<"A","B","C","D","E","F","G","H","I","J","K","L","M",
                "N","O","P","Q","R","S","T","U","V","W","X","Y","Z">>
LowerChars == <<"a","b","c","d","e","f","g","h","i","j","k","l","m",
                "n","o","p","q","r","s","t","u","v","w","x","y","z">>
DigitChars == <<"0","1","2","3","4","5","6","7","8","9">>

IndexIn(c, seq) == CHOOSE i \in 1..Len(seq) : seq[i] = c

IsIn(c, seq) == \E i \in 1..Len(seq) : seq[i] = c

LowerChar(c) == IF IsIn(c, UpperChars) THEN LowerChars[IndexIn(c, UpperChars)] ELSE c

Lower(s) == [i \in 1..Len(s) |-> LowerChar(s[i])]

EndsWith(s, suf) ==
    /\ Len(suf) <= Len(s)
    /\ \A i \in 1..Len(suf) : s[Len(s) - Len(suf) + i] = suf[i]

IsSpace(c) == c \in {" ", "\t", "\n"}

RECURSIVE LStrip(_)
LStrip(s) == IF s # <<>> /\ IsSpace(Head(s)) THEN LStrip(Tail(s)) ELSE s

RECURSIVE RStrip(_)
RStrip(s) == IF s # <<>> /\ IsSpace(s[Len(s)]) THEN RStrip(SubSeq(s, 1, Len(s) - 1)) ELSE s

Strip(s) == RStrip(LStrip(s))

RECURSIVE Split(_, _)
Split(s, sep) ==
    IF IsIn(sep, s)
    THEN LET i == CHOOSE k \in 1..Len(s) : s[k] = sep /\ \A j \in 1..(k - 1) : s[j] # sep
         IN  <<SubSeq(s, 1, i - 1)>> \o Split(SubSeq(s, i + 1, Len(s)), sep)
    ELSE <<s>>

Ord(c) ==
    IF IsIn(c, UpperChars) THEN 64 + IndexIn(c, UpperChars)
    ELSE IF IsIn(c, LowerChars) THEN 96 + IndexIn(c, LowerChars)
    ELSE IF IsIn(c, DigitChars) THEN 47 + IndexIn(c, DigitChars)
    ELSE IF c = " " THEN 32
    ELSE IF c = "." THEN 46
    ELSE IF c = ";" THEN 59
    ELSE IF c = "\t" THEN 9
    ELSE 10

RECURSIVE StrLess(_, _)
StrLess(a, b) ==
    IF a = <<>> THEN b # <<>>
    ELSE IF b = <<>> THEN FALSE
    ELSE IF Head(a) = Head(b) THEN StrLess(Tail(a), Tail(b))
    ELSE Ord(Head(a)) < Ord(Head(b))

\* sorted(S) of a set of strings: the element at place i has i - 1 smaller ones
Sorted(S) ==
    [i \in 1..Cardinality(S) |->
        CHOOSE x \in S : Cardinality({y \in S : StrLess(y, x)}) = i - 1]

Range(seq) == {seq[i] : i \in 1..Len(seq)}

TrecExt == <<".","t","r","e","c">>
TscprojExt == <<".","t","s","c","p","r","o","j">>
JsonExt == <<".","j","s","o","n">>

--------------------------------------------------------------------------
(* The decoded project document.  A value carries its JSON type in t:      *)
(* "str" a string, "num" a number/null/boolean (hashable, not iterable,    *)
(* no .lower()), "list" an array, "obj" an object, "absent" a missing key. *)

NoStr == <<>>

StrVal(s) == [t |-> "str", s |-> s]
NumVal == [t |-> "num", s |-> NoStr]
ListVal == [t |-> "list", s |-> NoStr]
Absent == [t |-> "absent", s |-> NoStr]

TrackObj(md) == [md |-> md]

NoTracks == [t |-> "absent", v |-> <<>>]
NumTracks == [t |-> "num", v |-> <<>>]
TrackList(v) == [t |-> "list", v |-> v]

SourceObj(src, tracks) == [t |-> "obj", src |-> src, tracks |-> tracks]
NumSource == [t |-> "num", src |-> Absent, tracks |-> NoTracks]

NoSourceBin == [t |-> "absent", v |-> <<>>]
NumSourceBin == [t |-> "num", v |-> <<>>]
SourceBin(v) == [t |-> "list", v |-> v]

Undecodable == [t |-> "undecodable", sb |-> NoSourceBin]
NumDoc == [t |-> "num", sb |-> NoSourceBin]
ObjDoc(sb) == [t |-> "obj", sb |-> sb]

--------------------------------------------------------------------------
(* get_referenced_trec_files *)

\* lines 62-66: the .trec pieces of one metaData value
TrecOfMetaData(md) ==
    IF md.t = "str" /\ IsIn(";", md.s)
    THEN LET files == Split(md.s, ";")
         IN  {Strip(files[i]) : i \in {k \in 1..Len(files) :
                 /\ Strip(files[k]) # <<>>
                 /\ EndsWith(Lower(Strip(files[k])), TrecExt)}}
    ELSE {}

\* lines 58-66: the loop over one source's sourceTracks
TrecOfTracks(v) ==
    UNION {IF v[i].md.t # "absent" THEN TrecOfMetaData(v[i].md) ELSE {} : i \in 1..Len(v)}

\* variant of TrecOfSource: a src that is no string is skipped instead of raising
TrecOfSource_SkipBadSrc(acc, source) ==
    IF acc.raised THEN acc
    ELSE IF source.t # "obj" THEN [acc EXCEPT !.raised = TRUE]
    ELSE LET withSrc ==
                 IF source.src.t = "str" /\ EndsWith(Lower(source.src.s), TrecExt)
                 THEN acc.refs \cup {source.src.s} ELSE acc.refs
         IN  IF source.tracks.t = "absent" THEN [acc EXCEPT !.refs = withSrc]
             ELSE IF source.tracks.t # "list" THEN [raised |-> TRUE, refs |-> withSrc]
             ELSE [acc EXCEPT !.refs = withSrc \cup TrecOfTracks(source.tracks.v)]

\* lines 51-66: one iteration of the loop over sourceBin; acc.raised records
\* an exception, which leaves the try block
TrecOfSource(acc, source) ==
    IF acc.raised THEN acc
    ELSE IF source.t # "obj" THEN [acc EXCEPT !.raised = TRUE]
    ELSE IF source.src.t \notin {"absent", "str"} THEN [acc EXCEPT !.raised = TRUE]
    ELSE LET withSrc ==
                 IF source.src.t = "str" /\ EndsWith(Lower(source.src.s), TrecExt)
                 THEN acc.refs \cup {source.src.s} ELSE acc.refs
         IN  IF source.tracks.t = "absent" THEN [acc EXCEPT !.refs = withSrc]
             ELSE IF source.tracks.t # "list" THEN [raised |-> TRUE, refs |-> withSrc]
             ELSE [acc EXCEPT !.refs = withSrc \cup TrecOfTracks(source.tracks.v)]

RECURSIVE TrecOfSources(_, _)
TrecOfSources(acc, v) ==
    IF v = <<>> THEN acc ELSE TrecOfSources(TrecOfSource(acc, Head(v)), Tail(v))

\* lines 40-72: the set returned; any exception returns set()
get_referenced_trec_files(data) ==
    IF data.t = "undecodable" THEN {}
    ELSE IF data.t # "obj" THEN {}
    ELSE IF data.sb.t = "absent" THEN {}
    ELSE IF data.sb.t # "list" THEN {}
    ELSE LET r == TrecOfSources([raised |-> FALSE, refs |-> {}], data.sb.v)
         IN  IF r.raised THEN {} ELSE r.refs

--------------------------------------------------------------------------
(* process_directory_or_file, lines 135-156: the pass over every reference *)

\* lines 150-154
AllOfMetaData(md) ==
    IF md.t = "str" /\ IsIn(";", md.s)
    THEN LET files == Split(md.s, ";")
         IN  {Strip(files[i]) : i \in {k \in 1..Len(files) : Strip(files[k]) # <<>>}}
    ELSE {}

\* lines 147-154
AllOfTracks(v) ==
    UNION {IF v[i].md.t # "absent" THEN AllOfMetaData(v[i].md) ELSE {} : i \in 1..Len(v)}

\* lines 142-154: one iteration; nonstr records that a value that is not a
\* string was added to referenced_files
AllOfSource(acc, source) ==
    IF acc.raised THEN acc
    ELSE IF source.t # "obj" THEN [acc EXCEPT !.raised = TRUE]
    ELSE IF source.src.t = "list" THEN [acc EXCEPT !.raised = TRUE]
    ELSE LET withSrc ==
                 IF source.src.t = "str" THEN acc.refs \cup {source.src.s} ELSE acc.refs
             ns == acc.nonstr \/ source.src.t = "num"
         IN  IF source.tracks.t = "absent"
             THEN [raised |-> FALSE, refs |-> withSrc, nonstr |-> ns]
             ELSE IF source.tracks.t # "list"
             THEN [raised |-> TRUE, refs |-> withSrc, nonstr |-> ns]
             ELSE [raised |-> FALSE, refs |-> withSrc \cup AllOfTracks(source.tracks.v),
                   nonstr |-> ns]

RECURSIVE AllOfSources(_, _)
AllOfSources(acc, v) ==
    IF v = <<>> THEN acc ELSE AllOfSources(AllOfSource(acc, Head(v)), Tail(v))

\* lines 136-156: referenced_files after the try block; an exception keeps
\* what was added before it
AllReferenced(data) ==
    LET none == [raised |-> FALSE, refs |-> {}, nonstr |-> FALSE]
    IN  IF data.t = "undecodable" THEN [none EXCEPT !.raised = TRUE]
        ELSE IF data.t # "obj" THEN [none EXCEPT !.raised = TRUE]
        ELSE IF data.sb.t = "absent" THEN none
        ELSE IF data.sb.t # "list" THEN [none EXCEPT !.raised = TRUE]
        ELSE AllOfSources(none, data.sb.v)

\* variant of FilesToDelete: .json files are not spared
FilesToDelete_JsonToo(all_unused, all_files, all_trec_files, referenced_files, referenced_trec_files) ==
    IF all_unused
    THEN {file \in all_files : file \notin referenced_files}
    ELSE all_trec_files \ referenced_trec_files

\* lines 172-181
FilesToDelete(all_unused, all_files, all_trec_files, referenced_files, referenced_trec_files) ==
    IF all_unused
    THEN {file \in all_files :
            file \notin referenced_files /\ ~EndsWith(Lower(file), JsonExt)}
    ELSE all_trec_files \ referenced_trec_files

--------------------------------------------------------------------------
(* The inputs: file names, directories, paths, documents *)

P_TSCPROJ == <<"p",".","t","s","c","p","r","o","j">>
Q_TSCPROJ == <<"Q",".","T","S","C","P","R","O","J">>
S_TSCPROJ == <<"s",".","t","s","c","p","r","o","j">>
A_TREC == <<"a",".","t","r","e","c">>
B_TREC == <<"b",".","T","R","E","C">>
C_MP4 == <<"c",".","m","p","4">>
N_JSON == <<"n",".","j","s","o","n">>
MetaNoSemi == <<"b",".","T","R","E","C">>
MetaSemi == <<" ","a",".","t","r","e","c"," ",";"," ","c",".","m","p","4",";",";","b",".","T","R","E","C"," ">>

Dirs == {"p", "s"}

\* os.path.basename(os.path.normpath(directory))
DirName(d) == IF d = "p" THEN <<"p">> ELSE <<"s">>

\* the sub-directories os.walk descends into: s lies inside p
Children(d) == IF d = "p" THEN <<"s">> ELSE <<>>

FilesOfP == {P_TSCPROJ, Q_TSCPROJ, A_TREC, B_TREC, C_MP4, N_JSON}
FilesOfS == {S_TSCPROJ, A_TREC}

DirPath(d) == [dir |-> d, name |-> NoStr]
FilePath(d, n) == [dir |-> d, name |-> n]

ProjectPaths == {FilePath("p", P_TSCPROJ), FilePath("p", Q_TSCPROJ), FilePath("s", S_TSCPROJ)}

ArgPaths == {DirPath("p"), DirPath("s"), FilePath("p", P_TSCPROJ), FilePath("p", Q_TSCPROJ),
             FilePath("p", C_MP4)}

SrcVals == {Absent, StrVal(A_TREC), StrVal(C_MP4), NumVal, ListVal}
TrackSeqs == {<<TrackObj(Absent), TrackObj(NumVal), TrackObj(StrVal(MetaNoSemi))>>,
              <<TrackObj(StrVal(MetaNoSemi)), TrackObj(StrVal(MetaSemi))>>}
TracksVals == {NoTracks, NumTracks} \cup {TrackList(v) : v \in TrackSeqs}
Sources == {SourceObj(src, tr) : src \in SrcVals, tr \in TracksVals} \cup {NumSource}
SourceSeqs == UNION {[1..n -> Sources] : n \in 0..MaxSources}
AllDocs == {Undecodable, NumDoc, ObjDoc(NoSourceBin), ObjDoc(NumSourceBin)}
           \cup {ObjDoc(SourceBin(v)) : v \in SourceSeqs}

DocA == ObjDoc(SourceBin(<<SourceObj(StrVal(A_TREC), NoTracks)>>))
DocB == ObjDoc(SourceBin(<<SourceObj(StrVal(B_TREC), NoTracks)>>))
DocMeta == ObjDoc(SourceBin(<<SourceObj(StrVal(C_MP4),
                                TrackList(<<TrackObj(StrVal(MetaSemi))>>))>>))
DocNumSrc == ObjDoc(SourceBin(<<SourceObj(NumVal, NoTracks), SourceObj(StrVal(A_TREC), NoTracks)>>))

DocsOfP == {DocA, DocMeta, DocNumSrc, ObjDoc(NoSourceBin), Undecodable}
DocsOfQ == {DocB, Undecodable}

--------------------------------------------------------------------------
(* process_directory_or_file *)

isdir(path) == path.name = NoStr
isfile(path, fsys) == path.name # NoStr /\ path.name \in fsys[path.dir]

\* lines 77-111: the project files the path can resolve to.  os.listdir
\* returns the names in arbitrary order, so tscproj_files[0] is any of them.
Locate(path, fsys) ==
    LET failed == [ok |-> FALSE, directory |-> path.dir, name |-> NoStr]
    IN  IF isdir(path)
        THEN LET dir_name == DirName(path.dir)
                 potential == IF EndsWith(Lower(dir_name), TscprojExt)
                              THEN dir_name ELSE dir_name \o TscprojExt
                 found == {f \in fsys[path.dir] : EndsWith(Lower(f), TscprojExt)}
             IN  IF potential \in fsys[path.dir]
                 THEN {[ok |-> TRUE, directory |-> path.dir, name |-> potential]}
                 ELSE IF found # {}
                 THEN {[ok |-> TRUE, directory |-> path.dir, name |-> f] : f \in found}
                 ELSE {failed}
        ELSE IF isfile(path, fsys)
        THEN IF ~EndsWith(Lower(path.name), TscprojExt)
             THEN {failed}
             ELSE {[ok |-> TRUE, directory |-> path.dir, name |-> path.name]}
        ELSE {failed}

NoScan == [caller |-> "none", directory |-> "p", tscproj_filename |-> NoStr,
           all_files |-> {}, all_trec_files |-> {},
           referenced_files |-> {}, referenced_trec_files |-> {}, nonstr |-> FALSE,
           extracted |-> FALSE, raised |-> FALSE,
           files_to_delete |-> {}, computed |-> FALSE, result |-> "none"]

\* variant of TrecFilesOf: the extension test without lower()
TrecFilesOf_CaseSensitive(all_files) == {file \in all_files : EndsWith(file, TrecExt)}

\* lines 121-126: the .trec files of the listing
TrecFilesOf(all_files) == {file \in all_files : EndsWith(Lower(file), TrecExt)}

\* variant of WithProject: the project file is not added
WithProject_Forgotten(referenced_files, tscproj_filename) == referenced_files

\* lines 158-160: the project file itself is always kept
WithProject(referenced_files, tscproj_filename) == referenced_files \cup {tscproj_filename}

\* lines 113-181 for the located project: the locals and where the call is next
Analyse(loc, caller, fsys, docs, a) ==
    LET base == [NoScan EXCEPT !.caller = caller, !.directory = loc.directory]
    IN  IF ~loc.ok THEN [scan |-> [base EXCEPT !.result = "False"], pc |-> "ret"]
        ELSE
        LET all_files == fsys[loc.directory]
            all_trec_files == TrecFilesOf(all_files)
            listed == [base EXCEPT !.tscproj_filename = loc.name,
                                   !.all_files = all_files,
                                   !.all_trec_files = all_trec_files]
        IN  IF all_trec_files = {} /\ ~a.all_unused
            THEN [scan |-> [listed EXCEPT !.result = "True"], pc |-> "ret"]
            ELSE
            LET data == docs[FilePath(loc.directory, loc.name)]
                referenced_trec_files == get_referenced_trec_files(data)
                all == AllReferenced(data)
                referenced_files == WithProject(all.refs, loc.name)
                extracted == [listed EXCEPT !.referenced_trec_files = referenced_trec_files,
                                            !.referenced_files = referenced_files,
                                            !.nonstr = all.nonstr,
                                            !.raised = all.raised,
                                            !.extracted = TRUE]
            IN  IF a.list_used
                THEN IF all.nonstr
                     THEN [scan |-> extracted, pc |-> "crash"]
                     ELSE [scan |-> [extracted EXCEPT !.result = "True"], pc |-> "ret"]
                ELSE [scan |-> [extracted EXCEPT
                                  !.files_to_delete =
                                      FilesToDelete(a.all_unused, all_files, all_trec_files,
                                                    referenced_files, referenced_trec_files),
                                  !.computed = TRUE],
                      pc |-> "loop"]

\* process_directory_or_file(path, ...) up to the loop of line 195
Call(path, caller) ==
    \E loc \in Locate(path, fs) :
        LET r == Analyse(loc, caller, fs, content, args)
        IN  /\ scan' = r.scan
            /\ pc' = r.pc
            /\ todo' = Sorted(r.scan.files_to_delete)
            /\ attempts' = <<>>

--------------------------------------------------------------------------
(* Initial states *)

ArgSets == [path : ArgPaths, sendtotrash : BOOLEAN, all_unused : BOOLEAN,
            list_used : BOOLEAN, recursive : BOOLEAN]

ContentOf(dp, dq) ==
    [pp \in ProjectPaths |->
        IF pp = FilePath("p", P_TSCPROJ) THEN dp
        ELSE IF pp = FilePath("p", Q_TSCPROJ) THEN dq
        ELSE DocA]

\* a run of the tool over a directory tree with up to three projects
InitTree ==
    /\ \E fp \in SUBSET FilesOfP :
         fs = [d \in Dirs |-> IF d = "p" THEN fp ELSE FilesOfS]
    /\ \E dp \in DocsOfP, dq \in DocsOfQ : content = ContentOf(dp, dq)
    /\ args \in ArgSets

\* a dry run over one project whose document is any document within the bounds
InitDocument ==
    /\ fs = [d \in Dirs |-> IF d = "p" THEN FilesOfP ELSE {}]
    /\ \E dp \in AllDocs : content = ContentOf(dp, DocB)
    /\ \E au \in BOOLEAN :
         args = [path |-> FilePath("p", P_TSCPROJ), sendtotrash |-> FALSE,
                 all_unused |-> au, list_used |-> FALSE, recursive |-> FALSE]

Init ==
    /\ InitTree \/ InitDocument
    /\ pc = "main"
    /\ walk_dirs = <<>>
    /\ tscproj_files = {}
    /\ root = "p"
    /\ processed_count = 0
    /\ scan = NoScan
    /\ todo = <<>>
    /\ attempts = <<>>
    /\ trashed = {}
    /\ fs0 = fs

--------------------------------------------------------------------------
(* main and process_recursively *)

\* variant of dry_run: the switch read the wrong way round
dry_run_Inverted == args.sendtotrash

\* lines 245, 248: dry_run=not args.sendtotrash
dry_run == ~args.sendtotrash

\* line 248
MainSingle ==
    /\ pc = "main"
    /\ ~args.recursive
    /\ Call(args.path, "main")
    /\ UNCHANGED <<fs, content, args, walk_dirs, tscproj_files, root, processed_count,
                   trashed, fs0>>

\* lines 213-216
RecursiveFile ==
    /\ pc = "main"
    /\ args.recursive
    /\ isfile(args.path, fs) /\ EndsWith(Lower(args.path.name), TscprojExt)
    /\ Call(args.path, "file")
    /\ UNCHANGED <<fs, content, args, walk_dirs, tscproj_files, root, processed_count,
                   trashed, fs0>>

\* line 219: os.walk starts; it yields nothing for a path that is no directory
RecursiveWalk ==
    /\ pc = "main"
    /\ args.recursive
    /\ ~(isfile(args.path, fs) /\ EndsWith(Lower(args.path.name), TscprojExt))
    /\ walk_dirs' = IF isdir(args.path) THEN <<args.path.dir>> ELSE <<>>
    /\ pc' = "walk"
    /\ UNCHANGED <<fs, content, args, tscproj_files, root, processed_count,
                   scan, todo, attempts, trashed, fs0>>

\* lines 219-220: os.walk lists the next directory, top-down
WalkDir ==
    /\ pc = "walk"
    /\ tscproj_files = {}
    /\ walk_dirs # <<>>
    /\ root' = Head(walk_dirs)
    /\ tscproj_files' = {f \in fs[Head(walk_dirs)] : EndsWith(Lower(f), TscprojExt)}
    /\ walk_dirs' = Children(Head(walk_dirs)) \o Tail(walk_dirs)
    /\ UNCHANGED <<fs, content, args, pc, processed_count, scan, todo, attempts, trashed, fs0>>

\* lines 222-225: the next project file of the listing, in the listing's order
WalkNext ==
    /\ pc = "walk"
    /\ \E tscproj_file \in tscproj_files :
         /\ tscproj_files' = tscproj_files \ {tscproj_file}
         /\ Call(FilePath(root, tscproj_file), "walk")
    /\ UNCHANGED <<fs, content, args, walk_dirs, root, processed_count, trashed, fs0>>

\* lines 228-231
WalkEnd ==
    /\ pc = "walk"
    /\ tscproj_files = {}
    /\ walk_dirs = <<>>
    /\ pc' = "done"
    /\ UNCHANGED <<fs, content, args, walk_dirs, tscproj_files, root, processed_count,
                   scan, todo, attempts, trashed, fs0>>

--------------------------------------------------------------------------
(* process_directory_or_file, lines 195-206 *)

\* lines 197-198
WouldTrash ==
    /\ pc = "loop"
    /\ todo # <<>>
    /\ dry_run
    /\ todo' = Tail(todo)
    /\ UNCHANGED <<fs, content, args, pc, walk_dirs, tscproj_files, root, processed_count,
                   scan, attempts, trashed, fs0>>

\* lines 200-202: send2trash moves the file to the trash
TrashOk ==
    /\ pc = "loop"
    /\ todo # <<>>
    /\ ~dry_run
    /\ fs' = [fs EXCEPT ![scan.directory] = @ \ {Head(todo)}]
    /\ attempts' = Append(attempts, Head(todo))
    /\ trashed' = trashed \cup {<<scan.directory, Head(todo)>>}
    /\ todo' = Tail(todo)
    /\ UNCHANGED <<content, args, pc, walk_dirs, tscproj_files, root, processed_count,
                   scan, fs0>>

\* variant of TrashFail: the exception ends the loop
TrashFail_Abort ==
    /\ pc = "loop"
    /\ todo # <<>>
    /\ args.sendtotrash
    /\ attempts' = Append(attempts, Head(todo))
    /\ trashed' = trashed \cup {<<scan.directory, Head(todo)>>}
    /\ todo' = <<>>
    /\ UNCHANGED <<fs, content, args, pc, walk_dirs, tscproj_files, root, processed_count,
                   scan, fs0>>

\* lines 200-204: send2trash raises, the file stays
TrashFail ==
    /\ pc = "loop"
    /\ todo # <<>>
    /\ ~dry_run
    /\ attempts' = Append(attempts, Head(todo))
    /\ trashed' = trashed \cup {<<scan.directory, Head(todo)>>}
    /\ todo' = Tail(todo)
    /\ UNCHANGED <<fs, content, args, pc, walk_dirs, tscproj_files, root, processed_count,
                   scan, fs0>>

\* line 206 and the early returns: back in the caller (lines 214-216, 225-226, 248)
Return ==
    /\ \/ pc = "ret"
       \/ pc = "loop" /\ todo = <<>>
    /\ LET result == IF pc = "loop" THEN "True" ELSE scan.result
       IN  /\ scan' = [scan EXCEPT !.result = result]
           /\ processed_count' = IF scan.caller # "main" /\ result = "True"
                                 THEN processed_count + 1 ELSE processed_count
    /\ pc' = IF scan.caller = "walk" THEN "walk" ELSE "done"
    /\ UNCHANGED <<fs, content, args, walk_dirs, tscproj_files, root, todo, attempts,
                   trashed, fs0>>

Next ==
    \/ MainSingle
    \/ RecursiveFile
    \/ RecursiveWalk
    \/ WalkDir
    \/ WalkNext
    \/ WalkEnd
    \/ WouldTrash
    \/ TrashOk
    \/ TrashFail
    \/ Return

Spec == Init /\ [][Next]_vars

TypeOK ==
    /\ pc \in {"main", "walk", "loop", "ret", "crash", "done"}
    /\ processed_count \in 0..3
    /\ \A d \in Dirs : fs[d] \subseteq fs0[d]

--------------------------------------------------------------------------
(* Properties *)

\* the document of the project the running (or last) call works on
ScannedDoc == content[FilePath(scan.directory, scan.tscproj_filename)]

\* the call has computed files_to_delete and its loop has not started, so
\* fs[scan.directory] is the listing the call saw
LoopStart ==
    /\ pc = "loop"
    /\ scan.computed
    /\ attempts = <<>>
    /\ Len(todo) = Cardinality(scan.files_to_delete)

Occurrences(seq, x) == Cardinality({i \in 1..Len(seq) : seq[i] = x})

\* every 'src' string and every trimmed non-empty piece of a metaData string
\* with a semicolon, anywhere in a decodable document
EveryReference(data) ==
    IF data.t = "obj" /\ data.sb.t = "list"
    THEN UNION {IF data.sb.v[i].t = "obj"
                THEN (IF data.sb.v[i].src.t = "str" THEN {data.sb.v[i].src.s} ELSE {})
                     \cup (IF data.sb.v[i].tracks.t = "list"
                           THEN UNION {AllOfMetaData(data.sb.v[i].tracks.v[k].md) :
                                         k \in 1..Len(data.sb.v[i].tracks.v)}
                           ELSE {})
                ELSE {} : i \in 1..Len(data.sb.v)}
    ELSE {}

\* C1: for every decodable document, whatever the types of its values, a file
\* name among the document's references (every src, every trimmed piece of a
\* metaData with a semicolon) is never in the deletion set, in either mode.
C1_ReferencedNeverDeleted ==
    (scan.computed /\ ScannedDoc.t # "undecodable")
        => scan.files_to_delete \cap EveryReference(ScannedDoc) = {}

\* C2: the project document's own file name is never in the deletion set and
\* is never handed to send2trash by its own scan, in either mode, however the
\* document was located and whether or not it could be decoded.
C2_ProjectFileKept ==
    scan.computed =>
        /\ scan.tscproj_filename \notin scan.files_to_delete
        /\ scan.tscproj_filename \notin Range(attempts)
        /\ scan.tscproj_filename \notin Range(todo)

\* C2 witness: all-unused mode, the project found as the first .tscproj of a
\* directory, its document undecodable, and other files selected for deletion
C2_Witness ==
    /\ scan.computed
    /\ args.all_unused
    /\ isdir(args.path)
    /\ scan.tscproj_filename = Q_TSCPROJ
    /\ ScannedDoc = Undecodable
    /\ scan.files_to_delete # {}
    /\ pc = "done"

\* C3: in all-unused mode the deletion set is exactly the listed files that
\* are not referenced, are not the project file, and end neither in .json nor
\* in the project extension .tscproj.
C3_AllUnusedSparesProjects ==
    (LoopStart /\ args.all_unused) =>
        scan.files_to_delete =
            {f \in fs[scan.directory] :
                /\ f \notin scan.referenced_files \cup {scan.tscproj_filename}
                /\ ~EndsWith(Lower(f), JsonExt)
                /\ ~EndsWith(Lower(f), TscprojExt)}

\* C4: in typed-only mode the deletion set is exactly the listed files ending
\* in .trec (any case) minus the typed references; no file without the .trec
\* extension is in it; for {p.tscproj, a.trec, b.TREC, c.mp4} and a document
\* referencing only a.trec it is {b.TREC}.
C4_TypedOnlyExact ==
    (LoopStart /\ ~args.all_unused) =>
        /\ scan.files_to_delete =
              {f \in fs[scan.directory] : EndsWith(Lower(f), TrecExt)}
                  \ scan.referenced_trec_files
        /\ \A f \in scan.files_to_delete : EndsWith(Lower(f), TrecExt)
        /\ (/\ fs[scan.directory] = {P_TSCPROJ, A_TREC, B_TREC, C_MP4}
            /\ ScannedDoc = DocA)
              => scan.files_to_delete = {B_TREC}

\* C4 witness: the scenario of the four-file directory
C4_Witness ==
    /\ LoopStart
    /\ ~args.all_unused
    /\ fs[scan.directory] = {P_TSCPROJ, A_TREC, B_TREC, C_MP4}
    /\ ScannedDoc = DocA
    /\ scan.referenced_trec_files = {A_TREC}
    /\ scan.files_to_delete = {B_TREC}

\* C5: without --sendtotrash no file leaves any directory and send2trash is
\* never called, in single and recursive runs and in either mode.
C5_DryRunTouchesNothing ==
    ~args.sendtotrash => (fs = fs0 /\ trashed = {} /\ attempts = <<>>)

\* C5 witness: a recursive dry run that has processed one project and has
\* gone through the whole loop of the next, reporting files it would trash
C5_Witness ==
    /\ ~args.sendtotrash
    /\ args.recursive
    /\ pc = "loop"
    /\ processed_count >= 1
    /\ Cardinality(scan.files_to_delete) >= 2
    /\ todo = <<>>

\* C6: with deletion enabled, send2trash is attempted on every member of the
\* deletion set exactly once, in sorted order, whichever attempts fail, and
\* the call returns True.
C6_EveryMemberAttemptedOnce ==
    (scan.computed /\ args.sendtotrash) =>
        /\ attempts \o todo = Sorted(scan.files_to_delete)
        /\ pc # "crash"
        /\ scan.result # "none" =>
              /\ scan.result = "True"
              /\ todo = <<>>
              /\ Range(attempts) = scan.files_to_delete
              /\ \A f \in scan.files_to_delete : Occurrences(attempts, f) = 1

\* C6 witness: a finished call in which the first attempt failed (the file is
\* still there) and a later one succeeded
C6_Witness ==
    /\ args.sendtotrash
    /\ scan.computed
    /\ scan.result = "True"
    /\ Len(attempts) >= 2
    /\ attempts[1] \in fs[scan.directory]
    /\ attempts[2] \notin fs[scan.directory]

\* C7: for a document that cannot be decoded both reference sets are empty,
\* the call is not aborted, and in all-unused mode the deletion set is every
\* listed file that is neither the project file nor a .json file.
C7_UndecodableDocument ==
    (scan.extracted /\ ScannedDoc = Undecodable) =>
        /\ scan.referenced_trec_files = {}
        /\ scan.referenced_files \ {scan.tscproj_filename} = {}
        /\ pc # "crash"
        /\ scan.result # "False"
        /\ (LoopStart /\ args.all_unused) =>
              scan.files_to_delete =
                  {f \in fs[scan.directory] :
                      f # scan.tscproj_filename /\ ~EndsWith(Lower(f), JsonExt)}

\* C7 witness: an undecodable document, all-unused mode, a .json file and
\* other files in the directory
C7_Witness ==
    /\ LoopStart
    /\ args.all_unused
    /\ ScannedDoc = Undecodable
    /\ N_JSON \in fs[scan.directory]
    /\ scan.files_to_delete = fs[scan.directory] \ {scan.tscproj_filename, N_JSON}
    /\ Cardinality(scan.files_to_delete) >= 3

\* the deletion set of a project over the directory as it was before the run
DeletionSetOf(dir, name) ==
    FilesToDelete(args.all_unused, fs0[dir], TrecFilesOf(fs0[dir]),
                  WithProject(AllReferenced(content[FilePath(dir, name)]).refs, name),
                  get_referenced_trec_files(content[FilePath(dir, name)]))

\* C8: --list-used is additive: a single-project run with --list-used and
\* --sendtotrash has, when it ends, attempted send2trash on every member of
\* the project's deletion set.
C8_ListUsedIsAdditive ==
    (/\ pc = "done"
     /\ args.sendtotrash /\ args.list_used /\ ~args.recursive
     /\ scan.tscproj_filename # NoStr)
        => \A f \in DeletionSetOf(scan.directory, scan.tscproj_filename) :
              <<scan.directory, f>> \in trashed

\* the project files a recursive run over args.path discovers
Discovered ==
    {pp \in ProjectPaths :
        /\ pp.name \in fs0[pp.dir]
        /\ \/ isdir(args.path) /\ (pp.dir = args.path.dir \/ args.path.dir = "p")
           \/ pp = args.path}

\* C9: in a recursive run with deletion enabled no scan hands to send2trash a
\* file that a discovered project document references.
C9_ScansDoNotInterfere ==
    (args.recursive /\ args.sendtotrash) =>
        \A pp \in Discovered :
            \A f \in AllReferenced(content[pp]).refs : <<pp.dir, f>> \notin trashed

\* C10: the typed reference set is a subset of the unrestricted one built by
\* the second pass over the same document, whatever the document holds.
C10_TypedSubsetOfAll ==
    scan.extracted =>
        scan.referenced_trec_files \subseteq scan.referenced_files \ {scan.tscproj_filename}

\* C10 witness: a document with a metaData list, where the typed set is not
\* empty and the unrestricted set holds more
C10_Witness ==
    /\ scan.extracted
    /\ Cardinality(scan.referenced_trec_files) >= 2
    /\ C_MP4 \in scan.referenced_files
    /\ C_MP4 \notin scan.referenced_trec_files

====
